---- MODULE Spec2Model ----
(***************************************************************************)
(* Request pipeline of the medical-assistance backend: server.js (the      *)
(* three analysis routes, the multer disk storage, the error middleware),  *)
(* services/speechService.js (transcribeAudio) and                         *)
(* services/geminiService.js (analyzeSymptomsWithGemini,                   *)
(* analyzeImageWithGemini).                                                *)
(*                                                                         *)
(* Every request is an independent task of the single-threaded event       *)
(* loop.  An action is one run-to-completion segment of a handler: from    *)
(* its entry or from the resumption of an `await` up to the next `await`   *)
(* that really suspends (the remote call, the fs.remove of the finally     *)
(* block) or up to the response.                                           *)
(***************************************************************************)
EXTENDS Integers, FiniteSets, Sequences, TLC

\* ------------------------------------------------------------- bounds
\* Largest value of Date.now() (milliseconds, counted from the first request).
MaxClock == 1

\* The requests in flight together.  Requests share nothing but the upload
\* directory, where a path is either given to two requests or it is not.
Reqs == {1, 2}
Times == 0..MaxClock

\* ------------------------------------------------------------- values
\* JavaScript's undefined (a missing body field, a missing req.file, a key
\* that is not in the JSON body of a response).
Undefined == "<undefined>"
\* A body field that is truthy and not a string (a number, an object).
NonString == "<non-string>"

\* symptomText of a POST /api/analyze/text body.
SymptomTexts == {Undefined, "", "fievre et toux", NonString}
\* Text recognised by the transcription provider (may be empty).
Transcripts == {"", "j'ai mal a la tete"}
\* Text generated by the generative model (response.text() may be empty).
Generated == {"", "reposez-vous et consultez un medecin"}
\* error.message of a fault of a remote call or of the file read.
Causes == {"ECONNRESET", "401 invalid api key"}
ENOENT == "ENOENT: no such file or directory"
TypeError == "symptomText.substring is not a function"
\* Extension of the uploaded file's original name (chosen by the client).
Exts == {".wav", ".jpg"}
\* What the multipart body holds: no file part, a file part under the
\* expected field, a file part under another field.
Uploads == {"none", "expected", "unexpected"}

\* Field name given to upload.single() by each upload route.
FieldName(route) == IF route = "audio" THEN "audioFile" ELSE "imageFile"

\* ------------------------------------------------------------- messages
\* The strings of the source, accents dropped.
MsgTextRequired ==
    "Le champ \"symptomText\" est requis."
MsgNoAudio ==
    "Aucun fichier audio n'a ete telecharge. Le champ attendu est \"audioFile\"."
MsgNoImage ==
    "Aucun fichier image n'a ete telecharge. Le champ attendu est \"imageFile\"."
MsgTextFallback == "Une erreur interne est survenue lors de l'analyse du texte."
MsgAudioFallback == "Une erreur interne est survenue lors de l'analyse audio."
MsgImageFallback == "Une erreur interne est survenue lors de l'analyse d'image."
MsgUnhandled == "Une erreur interne du serveur est survenue."
MsgTextDone == "Analyse des symptomes par texte terminee."
MsgAudioDone == "Analyse des symptomes par voix terminee."
MsgImageDone == "Analyse des observations visuelles terminee."
MsgWhisperFailed ==
    "Echec de la transcription audio via OpenAI Whisper. Verifiez votre cle API, le format du fichier audio et les limites d'utilisation."
MsgGeminiTextFailed ==
    "Echec de l'analyse des symptomes via Gemini. Verifiez votre cle API et la connectivite."
MsgGeminiVisionFailed ==
    "Echec de l'analyse d'image via Gemini Vision. Verifiez votre cle API, le format/type MIME de l'image et la qualite de l'image."
Disclaimer ==
    "Cette analyse est fournie a titre informatif et ne remplace pas un diagnostic ou un conseil medical professionnel. Consultez toujours un professionnel de la sante."
DisclaimerImage ==
    "Cette analyse est fournie a titre informatif, decrit uniquement les observations visuelles et ne remplace pas un diagnostic ou un conseil medical professionnel. Consultez toujours un professionnel de la sante."

\* ------------------------------------------------------------- files
NoFile == <<>>
\* filename callback of the disk storage.
FileName(fieldname, now, ext) == <<fieldname, now, ext>>
Paths == {FileName(f, t, e) : f \in {"audioFile", "imageFile"}, t \in Times, e \in Exts}

\* ------------------------------------------------------------- outcomes
\* Completion of an async function: a returned value or a thrown Error.
Returned(v) == [ok |-> TRUE, val |-> v]
Thrown(message) == [ok |-> FALSE, val |-> message]
NoOutcome == [ok |-> FALSE, val |-> Undefined]

\* Mutant: the catch block rethrows the error it caught.
WhisperCatchRethrows(cause) == Thrown(cause)

\* catch blocks of the three clients: the cause is logged, a new Error with
\* a fixed message is thrown.
WhisperCatch(cause) == Thrown(MsgWhisperFailed)
GeminiTextCatch(cause) == Thrown(MsgGeminiTextFailed)
GeminiVisionCatch(cause) == Thrown(MsgGeminiVisionFailed)

\* Mutant: the removal is awaited without .catch, so that its rejection
\* replaces the pending completion.
FinallyRethrows(pending, removed) ==
    IF removed THEN pending ELSE Thrown("EPERM: operation not permitted")

\* finally blocks: `await fs.remove(p).catch(log)`; the rejection of the
\* removal is logged by the .catch and the pending completion stands.
Finally(pending, removed) == pending

\* ------------------------------------------------------------- responses
Body(status, message, transcription, interpretation, observations, disclaimer) ==
    [status |-> status, message |-> message, transcription |-> transcription,
     interpretation |-> interpretation, observations |-> observations,
     disclaimer |-> disclaimer]
NoResponse == [code |-> 0, body |-> Body(Undefined, Undefined, Undefined, Undefined, Undefined, Undefined)]

\* res.status(code).json({status: 'error', message})
ErrorResponse(code, message) ==
    [code |-> code, body |-> Body("error", message, Undefined, Undefined, Undefined, Undefined)]

\* Mutant: the disclaimer is left out of the body.
TextSuccessNoDisclaimer(advice) ==
    [code |-> 200, body |-> Body("success", MsgTextDone, Undefined, advice, Undefined, Undefined)]

TextSuccess(advice) ==
    [code |-> 200, body |-> Body("success", MsgTextDone, Undefined, advice, Undefined, Disclaimer)]
AudioSuccess(transcription, advice) ==
    [code |-> 200, body |-> Body("success", MsgAudioDone, transcription, advice, Undefined, Disclaimer)]
ImageSuccess(observations) ==
    [code |-> 200, body |-> Body("success", MsgImageDone, Undefined, Undefined, observations, DisclaimerImage)]

Fallback(route) ==
    CASE route = "text" -> MsgTextFallback
      [] route = "audio" -> MsgAudioFallback
      [] OTHER -> MsgImageFallback

\* catch blocks of the three routes: error.message || fallback.
RouteCatch(route, error) ==
    ErrorResponse(500, IF error.val \notin {"", Undefined} THEN error.val ELSE Fallback(route))

\* Mutant: `symptomText === undefined`.
MissingTextOnlyUndefined(symptomText) == symptomText = Undefined

\* `!symptomText`
MissingText(symptomText) == symptomText \in {Undefined, ""}
\* `!req.file`
MissingFile(file) == file = NoFile

\* ------------------------------------------------------------- state
VARIABLES
    now,    \* Date.now()
    disk,   \* the upload directory: path -> request that wrote it, 0 if absent
    reqs    \* the requests

vars == <<now, disk, reqs>>

Idle ==
    [pc |-> "idle", route |-> "none", symptomText |-> Undefined, upload |-> "none",
     ext |-> Undefined, file |-> NoFile, readOk |-> FALSE, cause |-> Undefined,
     pending |-> NoOutcome, transcription |-> Undefined, analyzeArg |-> Undefined,
     removed |-> Undefined, outcome |-> NoOutcome, generated |-> Undefined,
     nTranscribe |-> 0, nAnalyzeText |-> 0, nAnalyzeImage |-> 0, nRead |-> 0,
     nRemove |-> 0, nDeleted |-> 0, nRemote |-> 0, nSent |-> 0,
     response |-> NoResponse]

Init ==
    /\ now = 0
    /\ disk = [p \in Paths |-> 0]
    /\ reqs = [r \in Reqs |-> Idle]

\* res.json / res.send: the response leaves and the handler ends.
Send(q, response) ==
    [q EXCEPT !.pc = "done", !.response = response, !.nSent = @ + 1]

\* The clock of Date.now() advances.
Tick ==
    /\ now < MaxClock
    /\ now' = now + 1
    /\ UNCHANGED <<disk, reqs>>

\* A request reaches one of the three routes.
Arrive(r) ==
    /\ reqs[r].pc = "idle"
    /\ \/ \E s \in SymptomTexts :
             reqs' = [reqs EXCEPT ![r] =
                        [@ EXCEPT !.pc = "route", !.route = "text", !.symptomText = s]]
       \/ \E route \in {"audio", "image"}, u \in Uploads \ {"expected"} :
             reqs' = [reqs EXCEPT ![r] =
                        [@ EXCEPT !.pc = "multer", !.route = route, !.upload = u]]
       \/ \E route \in {"audio", "image"}, e \in Exts :
             reqs' = [reqs EXCEPT ![r] =
                        [@ EXCEPT !.pc = "multer", !.route = route, !.upload = "expected",
                                  !.ext = e]]
    /\ UNCHANGED <<now, disk>>

\* Global error middleware (err, req, res, next).
ErrorMiddleware(q) == Send(q, ErrorResponse(500, MsgUnhandled))

\* upload.single(field): stores the file part of the expected field under
\* FileName(...) in the upload directory and sets req.file; a file part of
\* another field is refused with an error handed to next().
MulterSingle(r) ==
    LET q == reqs[r] IN
    /\ q.pc = "multer"
    /\ CASE q.upload = "none" ->
              /\ reqs' = [reqs EXCEPT ![r] = [q EXCEPT !.pc = "route"]]
              /\ disk' = disk
         [] q.upload = "expected" ->
              LET path == FileName(FieldName(q.route), now, q.ext) IN
              /\ reqs' = [reqs EXCEPT ![r] = [q EXCEPT !.pc = "route", !.file = path]]
              /\ disk' = [disk EXCEPT ![path] = r]
         [] OTHER ->
              /\ reqs' = [reqs EXCEPT ![r] = ErrorMiddleware(q)]
              /\ disk' = disk
    /\ UNCHANGED now

\* analyzeSymptomsWithGemini(text) up to its first suspension: the prompt is
\* built, text.substring(0, 100) is logged (a TypeError when text is no
\* string, caught by the client's catch), generateContent is awaited.
AnalyzeSymptomsCall(q, text) ==
    LET q1 == [q EXCEPT !.nAnalyzeText = @ + 1, !.analyzeArg = text] IN
    IF text = NonString
    THEN Send([q1 EXCEPT !.cause = TypeError], RouteCatch(q.route, GeminiTextCatch(TypeError)))
    ELSE [q1 EXCEPT !.pc = "gemini_text", !.nRemote = @ + 1]

\* POST /api/analyze/text
TextRoute(r) ==
    LET q == reqs[r] IN
    /\ q.pc = "route"
    /\ q.route = "text"
    /\ reqs' = [reqs EXCEPT ![r] =
                  IF MissingText(q.symptomText)
                  THEN Send(q, ErrorResponse(400, MsgTextRequired))
                  ELSE AnalyzeSymptomsCall(q, q.symptomText)]
    /\ UNCHANGED <<now, disk>>

\* What the route sends once analyzeSymptomsWithGemini has completed.
AfterAnalyzeSymptoms(q, outcome) ==
    IF outcome.ok
    THEN Send(q, IF q.route = "text" THEN TextSuccess(outcome.val)
                 ELSE AudioSuccess(q.transcription, outcome.val))
    ELSE Send(q, RouteCatch(q.route, outcome))

\* model.generateContent(prompt) of analyzeSymptomsWithGemini completes.
GeminiTextReturns(r) ==
    LET q == reqs[r] IN
    /\ q.pc = "gemini_text"
    /\ \/ \E g \in Generated :
             reqs' = [reqs EXCEPT ![r] =
                        AfterAnalyzeSymptoms([q EXCEPT !.generated = g], Returned(g))]
       \/ \E c \in Causes :
             reqs' = [reqs EXCEPT ![r] =
                        AfterAnalyzeSymptoms([q EXCEPT !.cause = c], GeminiTextCatch(c))]
    /\ UNCHANGED <<now, disk>>

\* POST /api/analyze/audio up to the suspension of transcribeAudio on
\* openai.audio.transcriptions.create({file: fs.createReadStream(path)}).
AudioRoute(r) ==
    LET q == reqs[r] IN
    /\ q.pc = "route"
    /\ q.route = "audio"
    /\ reqs' = [reqs EXCEPT ![r] =
                  IF MissingFile(q.file)
                  THEN Send(q, ErrorResponse(400, MsgNoAudio))
                  ELSE [q EXCEPT !.pc = "whisper", !.nTranscribe = @ + 1, !.nRead = @ + 1,
                                 !.readOk = (disk[q.file] # 0), !.nRemote = @ + 1]]
    /\ UNCHANGED <<now, disk>>

\* Mutant: the failure of transcribeAudio is not allowed to end the handler.
AfterTranscribeIgnoresFailure(q, outcome) ==
    AnalyzeSymptomsCall([q EXCEPT !.transcription = outcome.val], outcome.val)

\* The audio route after `await transcribeAudio(path)`.
AfterTranscribe(q, outcome) ==
    IF outcome.ok
    THEN AnalyzeSymptomsCall([q EXCEPT !.transcription = outcome.val], outcome.val)
    ELSE Send(q, RouteCatch("audio", outcome))

\* Mutant: the route answers with the success body whatever the outcome.
AfterAnalyzeImageAlwaysSuccess(q, outcome) == Send(q, ImageSuccess(outcome.val))

\* The image route after `await analyzeImageWithGemini(path)`.
AfterAnalyzeImage(q, outcome) ==
    IF outcome.ok
    THEN Send(q, ImageSuccess(outcome.val))
    ELSE Send(q, RouteCatch("image", outcome))

\* Mutant: the removal is the last statement of the try body.
EnterFinallyOnSuccessOnly(q, pending) ==
    IF pending.ok
    THEN [q EXCEPT !.pc = "removing", !.pending = pending, !.nRemove = @ + 1]
    ELSE IF q.route = "audio" THEN AfterTranscribe(q, pending)
         ELSE AfterAnalyzeImage(q, pending)

\* Mutant: the removal is in the catch block.
EnterFinallyOnErrorOnly(q, pending) ==
    IF ~pending.ok
    THEN [q EXCEPT !.pc = "removing", !.pending = pending, !.nRemove = @ + 1]
    ELSE IF q.route = "audio" THEN AfterTranscribe(q, pending)
         ELSE AfterAnalyzeImage(q, pending)

\* The try/catch of a client ends with `pending`; its finally block calls
\* fs.remove(path) and awaits it.
EnterFinally(q, pending) ==
    [q EXCEPT !.pc = "removing", !.pending = pending, !.nRemove = @ + 1]

\* The transcription call completes: the text, or a fault.
WhisperReturns(r) ==
    LET q == reqs[r] IN
    /\ q.pc = "whisper"
    /\ \/ /\ q.readOk
          /\ \E t \in Transcripts :
                reqs' = [reqs EXCEPT ![r] = EnterFinally(q, Returned(t))]
       \/ /\ q.readOk
          /\ \E c \in Causes :
                reqs' = [reqs EXCEPT ![r] =
                           EnterFinally([q EXCEPT !.cause = c], WhisperCatch(c))]
       \/ /\ ~q.readOk
          /\ reqs' = [reqs EXCEPT ![r] =
                        EnterFinally([q EXCEPT !.cause = ENOENT], WhisperCatch(ENOENT))]
    /\ UNCHANGED <<now, disk>>

\* POST /api/analyze/image up to the suspension of analyzeImageWithGemini:
\* fs.readFileSync(path) throws when the file is gone, else generateContent
\* is awaited.
ImageRoute(r) ==
    LET q == reqs[r] IN
    /\ q.pc = "route"
    /\ q.route = "image"
    /\ reqs' = [reqs EXCEPT ![r] =
                  IF MissingFile(q.file)
                  THEN Send(q, ErrorResponse(400, MsgNoImage))
                  ELSE LET q1 == [q EXCEPT !.nAnalyzeImage = @ + 1, !.nRead = @ + 1,
                                           !.readOk = (disk[q.file] # 0)] IN
                       IF q1.readOk
                       THEN [q1 EXCEPT !.pc = "gemini_vision", !.nRemote = @ + 1]
                       ELSE EnterFinally([q1 EXCEPT !.cause = ENOENT],
                                         GeminiVisionCatch(ENOENT))]
    /\ UNCHANGED <<now, disk>>

\* model.generateContent([prompt, image]) of analyzeImageWithGemini completes.
GeminiVisionReturns(r) ==
    LET q == reqs[r] IN
    /\ q.pc = "gemini_vision"
    /\ \/ \E g \in Generated :
             reqs' = [reqs EXCEPT ![r] = EnterFinally([q EXCEPT !.generated = g], Returned(g))]
       \/ \E c \in Causes :
             reqs' = [reqs EXCEPT ![r] =
                        EnterFinally([q EXCEPT !.cause = c], GeminiVisionCatch(c))]
    /\ UNCHANGED <<now, disk>>

\* fs.remove(path) of a finally block completes (a missing path is no
\* error; any other failure rejects and is logged); the client completes
\* and its route goes on.
RemoveCompletes(r) ==
    LET q == reqs[r] IN
    /\ q.pc = "removing"
    /\ \E removed \in BOOLEAN :
          LET outcome == Finally(q.pending, removed)
              q1 == [q EXCEPT !.removed = IF removed THEN "ok" ELSE "failed",
                              !.nDeleted = IF removed /\ disk[q.file] # 0 THEN @ + 1 ELSE @,
                              !.outcome = outcome]
          IN /\ disk' = IF removed THEN [disk EXCEPT ![q.file] = 0] ELSE disk
             /\ reqs' = [reqs EXCEPT ![r] =
                           IF q.route = "audio" THEN AfterTranscribe(q1, outcome)
                           ELSE AfterAnalyzeImage(q1, outcome)]
    /\ UNCHANGED now

Next ==
    \/ Tick
    \/ \E r \in Reqs :
          \/ Arrive(r)
          \/ MulterSingle(r)
          \/ TextRoute(r)
          \/ AudioRoute(r)
          \/ ImageRoute(r)
          \/ WhisperReturns(r)
          \/ GeminiTextReturns(r)
          \/ GeminiVisionReturns(r)
          \/ RemoveCompletes(r)

Spec == Init /\ [][Next]_vars

\* A handler step that is enabled is eventually run by the event loop, and
\* every remote call and every fs.remove eventually completes.
Handle(r) ==
    \/ MulterSingle(r)
    \/ TextRoute(r)
    \/ AudioRoute(r)
    \/ ImageRoute(r)
    \/ WhisperReturns(r)
    \/ GeminiTextReturns(r)
    \/ GeminiVisionReturns(r)
    \/ RemoveCompletes(r)

FairSpec == Spec /\ \A r \in Reqs : WF_vars(Handle(r))

\* ------------------------------------------------------------- properties
Done(r) == reqs[r].pc = "done"
InFlight(r) == reqs[r].pc \notin {"idle", "done"}
HasFile(r) == reqs[r].file # NoFile
RemovalOver(r) == reqs[r].removed # Undefined
Code(r) == reqs[r].response.code
ResponseBody(r) == reqs[r].response.body

\* The removal of a finally block completes in this step and succeeds.
RemovedNow(r) == reqs[r].pc = "removing" /\ reqs'[r].removed = "ok"

\* C1, as stated: an audio request with a file that has ended has called
\* transcribeAudio once and has deleted its temporary file once.
C1_Original ==
    \A r \in Reqs :
        reqs[r].route = "audio" /\ HasFile(r) /\ Done(r)
            => reqs[r].nTranscribe = 1 /\ reqs[r].nDeleted = 1

C1_State(r) ==
    LET q == reqs[r] IN
    /\ q.nTranscribe <= 1
    /\ q.nRemove <= 1
    /\ q.nDeleted <= q.nRemove
    /\ q.pc = "route" => q.nTranscribe = 0 /\ q.nRemove = 0
    /\ q.pc = "whisper" => q.nTranscribe = 1 /\ q.nRemove = 0
    /\ q.pc = "removing" => q.nTranscribe = 1 /\ q.nRemove = 1 /\ ~RemovalOver(r)
    /\ q.pc \in {"gemini_text", "done"} => q.nTranscribe = 1 /\ q.nRemove = 1 /\ RemovalOver(r)

\* C1, amended: for an audio request with a file, transcribeAudio is called
\* exactly once and fs.remove is called on req.file.path exactly once, after
\* the transcription call has completed and before analyzeSymptomsWithGemini
\* is called or a response is sent, whatever the outcome; it deletes at most
\* one file, and when it succeeds the path is absent right after it.
C1_Amended ==
    /\ [](\A r \in Reqs : reqs[r].route = "audio" /\ HasFile(r) => C1_State(r))
    /\ [][\A r \in Reqs :
             reqs[r].route = "audio" /\ RemovedNow(r) => disk'[reqs[r].file] = 0]_vars

\* An audio request whose transcription succeeded and whose interpretation
\* failed has ended with its file removed.
C1_Witness ==
    \E r \in Reqs :
        /\ reqs[r].route = "audio" /\ Done(r) /\ Code(r) = 500
        /\ reqs[r].transcription \in Transcripts
        /\ reqs[r].nRemove = 1 /\ reqs[r].removed = "ok" /\ disk[reqs[r].file] = 0

\* C2, as stated: an image request with a file that has ended has called
\* analyzeImageWithGemini once and has deleted its temporary file once.
C2_Original ==
    \A r \in Reqs :
        reqs[r].route = "image" /\ HasFile(r) /\ Done(r)
            => reqs[r].nAnalyzeImage = 1 /\ reqs[r].nDeleted = 1

C2_State(r) ==
    LET q == reqs[r] IN
    /\ q.nAnalyzeImage <= 1
    /\ q.nRemove <= 1
    /\ q.nDeleted <= q.nRemove
    /\ q.pc = "route" => q.nAnalyzeImage = 0 /\ q.nRemove = 0
    /\ q.pc = "gemini_vision" => q.nAnalyzeImage = 1 /\ q.nRemove = 0
    /\ q.pc = "removing" => q.nAnalyzeImage = 1 /\ q.nRemove = 1 /\ ~RemovalOver(r)
    /\ q.pc = "done" => q.nAnalyzeImage = 1 /\ q.nRemove = 1 /\ RemovalOver(r)

\* C2, amended: for an image request with a file, analyzeImageWithGemini is
\* called exactly once and fs.remove is called on req.file.path exactly
\* once, after the read of the file or the vision call has completed and
\* before the response, whatever the outcome; it deletes at most one file,
\* and when it succeeds the path is absent right after it.
C2_Amended ==
    /\ [](\A r \in Reqs : reqs[r].route = "image" /\ HasFile(r) => C2_State(r))
    /\ [][\A r \in Reqs :
             reqs[r].route = "image" /\ RemovedNow(r) => disk'[reqs[r].file] = 0]_vars

\* An image request whose vision call faulted has ended with its file deleted.
C2_Witness ==
    \E r \in Reqs :
        /\ reqs[r].route = "image" /\ Done(r) /\ Code(r) = 500
        /\ reqs[r].cause \in Causes
        /\ reqs[r].removed = "ok" /\ reqs[r].nDeleted = 1

\* C3: once the removal of the finally block is over, failed or not, the
\* client has completed with what its try/catch produced, and the response
\* is the one that completion alone determines; two requests that differ
\* only in the result of the removal have the same response.
C3_CleanupIsolated ==
    /\ \A r \in Reqs :
          LET q == reqs[r] IN
          RemovalOver(r) =>
             /\ q.outcome = q.pending
             /\ q.route = "image" =>
                   /\ Done(r)
                   /\ q.response = IF q.pending.ok THEN ImageSuccess(q.pending.val)
                                   ELSE ErrorResponse(500, q.pending.val)
             /\ q.route = "audio" /\ ~q.pending.ok =>
                   Done(r) /\ q.response = ErrorResponse(500, q.pending.val)
             /\ q.route = "audio" /\ q.pending.ok =>
                   /\ q.transcription = q.pending.val
                   /\ Code(r) = 200 => ResponseBody(r).transcription = q.pending.val
    /\ \A r1, r2 \in Reqs :
          /\ RemovalOver(r1) /\ RemovalOver(r2) /\ Done(r1) /\ Done(r2)
          /\ reqs[r1].route = reqs[r2].route
          /\ reqs[r1].pending = reqs[r2].pending
          /\ reqs[r1].generated = reqs[r2].generated
          /\ (reqs[r1].cause = Undefined) = (reqs[r2].cause = Undefined)
          => reqs[r1].response = reqs[r2].response

\* A request whose removal failed has been answered with a success.
C3_Witness ==
    \E r \in Reqs : reqs[r].removed = "failed" /\ Done(r) /\ Code(r) = 200

\* C4: on the audio route analyzeSymptomsWithGemini is not called while
\* transcribeAudio runs; it is called once, with the transcription, when
\* transcribeAudio has returned, and never when transcribeAudio has thrown,
\* in which case the request has ended with a 500.
C4_TranscribeBeforeInterpret ==
    \A r \in Reqs :
        LET q == reqs[r] IN
        q.route = "audio" =>
           /\ q.nAnalyzeText <= 1
           /\ q.pc \in {"multer", "route", "whisper", "removing"} => q.nAnalyzeText = 0
           /\ q.nAnalyzeText = 1 =>
                 /\ q.nTranscribe = 1 /\ RemovalOver(r) /\ q.outcome.ok
                 /\ q.analyzeArg = q.outcome.val /\ q.analyzeArg \in Transcripts
           /\ RemovalOver(r) /\ q.outcome.ok => q.nAnalyzeText = 1
           /\ RemovalOver(r) /\ ~q.outcome.ok =>
                 q.nAnalyzeText = 0 /\ Done(r) /\ Code(r) = 500

\* One audio request waits for the interpretation of its transcription while
\* another has ended on the failure of its transcription.
C4_Witness ==
    \E r1, r2 \in Reqs :
        /\ reqs[r1].route = "audio" /\ reqs[r1].pc = "gemini_text"
        /\ reqs[r1].analyzeArg = "j'ai mal a la tete"
        /\ reqs[r2].route = "audio" /\ Done(r2) /\ RemovalOver(r2)
        /\ ~reqs[r2].outcome.ok /\ reqs[r2].nAnalyzeText = 0

MissingInput(r) ==
    /\ reqs[r].pc # "idle"
    /\ \/ reqs[r].route = "text" /\ reqs[r].symptomText \in {Undefined, ""}
       \/ reqs[r].route \in {"audio", "image"} /\ reqs[r].upload = "none"

\* C5: a request without its required input makes no client call and no
\* remote call, and ends with a 400 error; only such requests end with 400.
C5_ValidationFirst ==
    \A r \in Reqs :
        /\ MissingInput(r) =>
              /\ reqs[r].nRemote = 0 /\ reqs[r].nTranscribe = 0
              /\ reqs[r].nAnalyzeText = 0 /\ reqs[r].nAnalyzeImage = 0
              /\ reqs[r].pc \in {"multer", "route", "done"}
              /\ Done(r) => Code(r) = 400 /\ ResponseBody(r).status = "error"
        /\ Code(r) = 400 => MissingInput(r)

\* A text request with an empty symptomText and an audio request without a
\* file have both ended with a 400.
C5_Witness ==
    \E r1, r2 \in Reqs :
        /\ reqs[r1].route = "text" /\ reqs[r1].symptomText = "" /\ Code(r1) = 400
        /\ reqs[r2].route = "audio" /\ reqs[r2].upload = "none" /\ Code(r2) = 400

\* C6, as stated: no two requests in flight hold the same file path.
C6_UniquePaths ==
    \A r1, r2 \in Reqs :
        r1 # r2 /\ InFlight(r1) /\ InFlight(r2) /\ HasFile(r1) /\ HasFile(r2)
            => reqs[r1].file # reqs[r2].file

NoFileOperation(r) ==
    /\ reqs[r].file = NoFile
    /\ reqs[r].nRead = 0 /\ reqs[r].nRemove = 0 /\ reqs[r].nDeleted = 0
    /\ reqs[r].nTranscribe = 0 /\ reqs[r].nAnalyzeImage = 0

\* C7, as stated: a successful text response holds a non-empty
\* interpretation and the disclaimer, and the text route touches no file.
C7_Original ==
    \A r \in Reqs :
        reqs[r].route = "text" =>
           /\ NoFileOperation(r)
           /\ Code(r) = 200 =>
                 /\ ResponseBody(r).interpretation \notin {"", Undefined}
                 /\ ResponseBody(r).disclaimer = Disclaimer

\* C7, amended: a successful text response holds, as interpretation, the
\* text the model returned (non-empty when that text is non-empty) and the
\* fixed disclaimer; no step of a text request creates, reads or deletes a
\* file, whether it succeeds or fails.
C7_Amended ==
    /\ [](\A r \in Reqs :
             reqs[r].route = "text" =>
                /\ NoFileOperation(r)
                /\ Code(r) = 200 =>
                      /\ reqs[r].symptomText = "fievre et toux"
                      /\ reqs[r].generated \in Generated
                      /\ ResponseBody(r).interpretation = reqs[r].generated
                      /\ ResponseBody(r).status = "success"
                      /\ ResponseBody(r).disclaimer = Disclaimer)
    /\ [][\A r \in Reqs :
             reqs'[r].route = "text" /\ reqs'[r] # reqs[r] => disk' = disk]_vars

\* Two text requests have succeeded, one with an empty text from the model.
C7_Witness ==
    \E r1, r2 \in Reqs :
        /\ reqs[r1].route = "text" /\ Code(r1) = 200
        /\ ResponseBody(r1).interpretation = ""
        /\ reqs[r2].route = "text" /\ Code(r2) = 200
        /\ ResponseBody(r2).interpretation = "reposez-vous et consultez un medecin"

\* The client call whose failure ended the request.
FailedClient(r) ==
    CASE reqs[r].upload = "unexpected" -> "multer"
      [] reqs[r].route = "text" -> "analyzeSymptomsWithGemini"
      [] reqs[r].route = "image" -> "analyzeImageWithGemini"
      [] reqs[r].nAnalyzeText = 0 -> "transcribeAudio"
      [] OTHER -> "analyzeSymptomsWithGemini"

FixedMessage(client) ==
    CASE client = "multer" -> MsgUnhandled
      [] client = "transcribeAudio" -> MsgWhisperFailed
      [] client = "analyzeImageWithGemini" -> MsgGeminiVisionFailed
      [] OTHER -> MsgGeminiTextFailed

\* C8: a 500 response holds nothing but status "error" and the fixed message
\* of the client that failed, never the cause; two requests in which the
\* same client failed, whatever the two causes, have the same response.
C8_StableErrorBody ==
    /\ \A r \in Reqs :
          Code(r) = 500 =>
             /\ reqs[r].response = ErrorResponse(500, FixedMessage(FailedClient(r)))
             /\ ResponseBody(r).message # reqs[r].cause
             /\ ResponseBody(r).message \notin Causes \cup {ENOENT, TypeError}
    /\ \A r1, r2 \in Reqs :
          Code(r1) = 500 /\ Code(r2) = 500 /\ FailedClient(r1) = FailedClient(r2)
              => reqs[r1].response = reqs[r2].response

\* Two audio requests whose transcription failed for different causes have
\* the same response.
C8_Witness ==
    \E r1, r2 \in Reqs :
        /\ reqs[r1].route = "audio" /\ reqs[r2].route = "audio"
        /\ Code(r1) = 500 /\ Code(r2) = 500
        /\ reqs[r1].nAnalyzeText = 0 /\ reqs[r2].nAnalyzeText = 0
        /\ reqs[r1].cause = "ECONNRESET" /\ reqs[r2].cause = "401 invalid api key"
        /\ reqs[r1].response = reqs[r2].response

\* C9, as stated: the file of an upload request is read at most once, exists
\* during the whole consuming call, and its removal is over when the
\* response is sent.
C9_FileLifetime ==
    \A r \in Reqs :
        HasFile(r) =>
           /\ reqs[r].nRead <= 1
           /\ reqs[r].pc \in {"whisper", "gemini_vision"} => disk[reqs[r].file] # 0
           /\ reqs[r].pc \in {"route", "whisper", "gemini_vision"} => reqs[r].nRemove = 0
           /\ Done(r) => RemovalOver(r)

C10_Safety(r) ==
    LET q == reqs[r] b == q.response.body IN
    /\ q.nSent <= 1
    /\ Done(r) <=> q.nSent = 1
    /\ Done(r) <=> q.response.code \in {200, 400, 500}
    /\ ~Done(r) => q.response = NoResponse
    /\ q.response.code = 200 =>
          /\ b.status = "success"
          /\ b.disclaimer \in {Disclaimer, DisclaimerImage}
          /\ q.cause = Undefined
          /\ q.generated \in Generated
          /\ q.route = "audio" => q.outcome.ok /\ q.nTranscribe = 1 /\ q.nAnalyzeText = 1
          /\ q.route = "image" => q.outcome.ok /\ q.nAnalyzeImage = 1
          /\ q.route = "text" => q.nAnalyzeText = 1
    /\ q.response.code \in {400, 500} =>
          /\ b.status = "error"
          /\ b.transcription = Undefined /\ b.interpretation = Undefined
          /\ b.observations = Undefined /\ b.disclaimer = Undefined

\* C10: a request sends at most one response, and nothing after it; a
\* success is sent only when every client call of the route succeeded and
\* holds status "success" and a disclaimer; a 400 or 500 holds neither
\* transcription, interpretation, observations nor disclaimer; and, every
\* remote call and removal completing, a request that arrived is answered.
C10_OneResponse ==
    /\ [](\A r \in Reqs : C10_Safety(r))
    /\ [][\A r \in Reqs : Done(r) => reqs'[r] = reqs[r]]_vars
    /\ \A r \in Reqs : (reqs[r].pc # "idle") ~> Done(r)

\* An audio request has been answered with a success and another request
\* with a 500.
C10_Witness ==
    \E r1, r2 \in Reqs :
        /\ reqs[r1].route = "audio" /\ Code(r1) = 200 /\ reqs[r1].nSent = 1
        /\ Code(r2) = 500 /\ reqs[r2].nSent = 1

====
